---- MODULE Spec2Model ----
(***************************************************************************)
(* A model of the Wordle bot of src/src/main.rs: the per-conversation      *)
(* dialogue (start_state, guess_state), the guess evaluation, the shared   *)
(* word sets with their edit protocol (edit_dictionary) and the            *)
(* persistence worker (dictionary_worker) with the override files.         *)
(***************************************************************************)
EXTENDS Integers, Sequences, FiniteSets, TLC

VARIABLES
    GAME_WORDS,        \* main.rs:18  the playable set (BTreeSet<String>)
    DICT_WORDS,        \* main.rs:20  the dictionary set
    DIRTY_DICTIONARY,  \* main.rs:22  AtomicBool
    APP_EXITING,       \* main.rs:24  AtomicBool
    assets,            \* the four word-list files of assets_dir()
    dialogue,          \* the stored Dialogue of every conversation
    task,              \* the handler in flight of every conversation
    channel,           \* the last update handled and what its handler did on the message channel
    worker,            \* position of dictionary_worker
    mainpc,            \* position of main
    quota,             \* the updates the message channel still delivers (-1: no limit)
    attempt,           \* evaluation harness: the attempt's characters
    answer,            \* evaluation harness: the answer's characters
    placement          \* evaluation harness: the tiles computed for (attempt, answer)

vars == <<GAME_WORDS, DICT_WORDS, DIRTY_DICTIONARY, APP_EXITING, assets, dialogue,
          task, channel, worker, mainpc, quota, attempt, answer, placement>>

storeVars == <<GAME_WORDS, DICT_WORDS, DIRTY_DICTIONARY, APP_EXITING, assets>>
convVars  == <<dialogue, task, channel>>
evalVars  == <<attempt, answer, placement>>

----------------------------------------------------------------------------
(* Text.  A token is a string; chars gives its Unicode scalar values, one   *)
(* one-character string each.  "E" stands for U+00E9, the one character of  *)
(* the model that takes two bytes in UTF-8.                                 *)

WordLen == 5

Commands == {"/wordle", "/420", "/guess", "/addword", "/addword@doomybot", "/removeword",
             "/exit", "/end", "/stop", "hello"}

\* Words of the model: two 5-letter anagrams, a 4-character word of 5 bytes, a
\* 5-character word of 6 bytes and a 2-letter word.
Words == {"crane", "nacre", "cafE", "cafEs", "ab"}

Tokens == Commands \cup Words

chars(t) ==
    CASE t = "crane" -> <<"c", "r", "a", "n", "e">>
      [] t = "nacre" -> <<"n", "a", "c", "r", "e">>
      [] t = "cafE"  -> <<"c", "a", "f", "E">>
      [] t = "cafEs" -> <<"c", "a", "f", "E", "s">>
      [] t = "ab"    -> <<"a", "b">>
      [] t = "/wordle" -> <<"/", "w", "o", "r", "d", "l", "e">>
      [] t = "/420"    -> <<"/", "4", "2", "0">>
      [] t = "/guess"  -> <<"/", "g", "u", "e", "s", "s">>
      [] t = "/addword" -> <<"/", "a", "d", "d", "w", "o", "r", "d">>
      [] t = "/addword@doomybot" ->
            <<"/", "a", "d", "d", "w", "o", "r", "d", "@", "d", "o", "o", "m", "y", "b", "o", "t">>
      [] t = "/removeword" -> <<"/", "r", "e", "m", "o", "v", "e", "w", "o", "r", "d">>
      [] t = "/exit" -> <<"/", "e", "x", "i", "t">>
      [] t = "/end"  -> <<"/", "e", "n", "d">>
      [] t = "/stop" -> <<"/", "s", "t", "o", "p">>
      [] t = "hello" -> <<"h", "e", "l", "l", "o">>

\* Bytes of one character in UTF-8.
utf8_len(c) == IF c = "E" THEN 2 ELSE 1

RECURSIVE byte_len(_)
byte_len(cs) == IF cs = <<>> THEN 0 ELSE utf8_len(Head(cs)) + byte_len(Tail(cs))

\* str::len(): the length in bytes.
len(t) == byte_len(chars(t))

\* str::chars().count(): the number of Unicode scalar values.
chars_count(t) == Len(chars(t))

\* A text is a sequence of pieces, each a token or the whitespace " ".
IsSpace(p) == p = " "

\* str::split_whitespace().collect()
split_whitespace(text) == SelectSeq(text, LAMBDA p : ~IsSpace(p))

----------------------------------------------------------------------------
(* The guess evaluation of guess_state.                                     *)

Correct   == "Correct"
Incorrect == "Incorrect"
Missing   == "Missing"

Range(s) == {s[i] : i \in DOMAIN s}

\* main.rs:325-336: the first pass blanks the exact matches of the scratch copy.
corrected_answer(at, an) ==
    [i \in 1..Len(an) |-> IF i <= Len(at) /\ at[i] = an[i] THEN " " ELSE an[i]]

\* The first pass of main.rs:328-336 comparing each character of the attempt with
\* every character of the answer.
check_placement_anywhere(at, an) ==
    [i \in 1..WordLen |-> IF i <= Len(at) /\ at[i] \in Range(an) THEN Correct ELSE Missing]

\* main.rs:310, 328-336: placement after the first pass.
check_placement(at, an) ==
    [i \in 1..WordLen |-> IF i <= Len(at) /\ i <= Len(an) /\ at[i] = an[i]
                           THEN Correct ELSE Missing]

\* main.rs:339-343: the second pass; corrected_answer is only read.
check_misplaced(at, an) ==
    LET first == check_placement(at, an)
        scratch == corrected_answer(at, an)
    IN  [i \in 1..WordLen |->
            IF i <= Len(at) /\ first[i] # Correct /\ at[i] \in Range(scratch)
            THEN Incorrect ELSE first[i]]

\* main.rs:407-416
to_emoji(p) ==
    [i \in DOMAIN p |-> CASE p[i] = Correct   -> "green"
                          [] p[i] = Incorrect -> "yellow"
                          [] p[i] = Missing   -> "black"]

AllCorrect == [i \in 1..WordLen |-> Correct]

----------------------------------------------------------------------------
(* The word-list files: one word per line.                                   *)

LF == "LF"   \* the line feed character

\* Iteration order of BTreeSet<String>: byte-wise lexicographic.
BTreeOrder == <<"/420", "/addword", "/addword@doomybot", "/end", "/exit", "/guess",
                "/removeword", "/stop", "/wordle", "ab", "cafE", "cafEs", "crane",
                "hello", "nacre">>

iter(set) == SelectSeq(BTreeOrder, LAMBDA w : w \in set)

RECURSIVE write_words(_)
\* main.rs:72-79: every word's bytes, then a newline.
write_words(ws) ==
    IF ws = <<>> THEN <<>> ELSE chars(Head(ws)) \o <<LF>> \o write_words(Tail(ws))

RECURSIVE read_lines(_, _)
\* BufRead::lines(): the text between line feeds; a last line need not end in one.
read_lines(data, cur) ==
    IF data = <<>> THEN (IF cur = <<>> THEN <<>> ELSE <<cur>>)
    ELSE IF Head(data) = LF THEN <<cur>> \o read_lines(Tail(data), <<>>)
    ELSE read_lines(Tail(data), Append(cur, Head(data)))

\* The String whose characters are cs.
string_of(cs) == CHOOSE t \in Tokens : chars(t) = cs

NoFile == [exists |-> FALSE, data |-> <<>>]
FileOf(set) == [exists |-> TRUE, data |-> write_words(iter(set))]

\* main.rs:98-101 and 118-121: insert every line into a fresh BTreeSet.
load_lines(file) == {string_of(l) : l \in Range(read_lines(file.data, <<>>))}

\* main.rs:88-106
load_game_words(fs) ==
    IF fs.words_custom.exists THEN load_lines(fs.words_custom) ELSE load_lines(fs.words)

\* main.rs:108-126
load_dict_words(fs) ==
    IF fs.dictionary_custom.exists THEN load_lines(fs.dictionary_custom)
    ELSE load_lines(fs.dictionary)

\* The asset directories the process may start from: the shipped lists alone, or
\* with the override files a previous run has flushed.
InitAssets ==
    { [words |-> FileOf({"crane", "nacre"}),
       dictionary |-> FileOf({"crane", "nacre", "cafEs"}),
       words_custom |-> NoFile, dictionary_custom |-> NoFile],
      [words |-> FileOf({"crane", "nacre"}),
       dictionary |-> FileOf({"crane", "nacre", "cafEs"}),
       words_custom |-> FileOf({"crane"}),
       dictionary_custom |-> FileOf({"crane", "nacre"})] }

----------------------------------------------------------------------------
(* The word store.                                                           *)

\* The report of main.rs:204-206 and 221-223 naming every word of the batch.
batch_changed_all(action, words, dict) == Range(words)

\* The lookup of main.rs:142 answering yes for every word.
is_dictionary_word_any(word) == TRUE

\* main.rs:138-143
is_dictionary_word(word) == word \in DICT_WORDS

\* main.rs:199-207: the words of an Add batch that pass the length test.
add_candidates(words) == {w \in Range(words) : len(w) = WordLen}

\* main.rs:199-207 and 220-224: one dictionary after the batch.
apply_batch(action, words, dict) ==
    IF action = "Add" THEN dict \cup add_candidates(words) ELSE dict \ Range(words)

\* main.rs:204-206 and 221-223: the words the batch reports for one dictionary.
batch_changed(action, words, dict) ==
    IF action = "Add" THEN add_candidates(words) \ dict ELSE Range(words) \cap dict

----------------------------------------------------------------------------
(* The dialogue: main.rs:170-180, 232-233, 260-266.                          *)

Conv == {"c1", "c2"}

StartState == [tag |-> "Start"]

GuessState(ans, guesses, last_input) ==
    [tag |-> "Guess", answer |-> ans, guesses |-> guesses, last_input |-> last_input]

\* main.rs:369: a game goes on while tries + 1 is below this.
GuessLimit == 7

(* What a handler did: outcome "next" (a next state was returned), "err"      *)
(* (it returned Err, on which main.rs:155 panics) or "panic"; reply is the    *)
(* message it built, sent is "ok" or "failed" for an awaited request, "never" *)
(* for a request that was built and dropped, "none" without a request.        *)
Result(outcome, dlg, reply, sent, payload) ==
    [outcome |-> outcome, dialogue |-> dlg, reply |-> reply, sent |-> sent,
     payload |-> payload]

Delivery(ok) == IF ok THEN "ok" ELSE "failed"

\* `.await?`: a failed delivery makes the handler return Err.
await_try(ok, dlg, reply, payload) ==
    IF ok THEN Result("next", dlg, reply, "ok", payload)
    ELSE Result("err", dlg, reply, "failed", payload)

\* `.await.ok()`: the delivery's result is dropped.
await_ok(ok, dlg, reply, payload) == Result("next", dlg, reply, Delivery(ok), payload)

\* A request that is built and never awaited is never sent.
not_awaited(dlg, reply) == Result("next", dlg, reply, "never", "")

no_reply(dlg) == Result("next", dlg, "none", "none", "")

panicked(dlg) == Result("panic", dlg, "none", "none", "")

\* main.rs:128-136: the words .choose() may return.
get_random_word == GAME_WORDS

\* main.rs:236-258: the results start_state may produce.
start_state(state, ans, ok) ==
    LET input == split_whitespace(ans)
    IN  IF ans = <<"/wordle">>
        THEN IF ~ok THEN {await_try(FALSE, state, "started", "")}
             ELSE IF get_random_word = {}           \* .unwrap() of None at main.rs:134,
             THEN {Result("panic", state, "started", "ok", "")}   \* the reply sent
             ELSE {await_try(TRUE, GuessState(w, <<>>, input), "started", "")
                     : w \in get_random_word}
        ELSE {no_reply(state)}

AddCommands  == {"/addword", "/addword@doomybot"}
ExitCommands == {"/exit", "/end", "/stop"}

\* The test of main.rs:368-369 with its bound off by one.
game_goes_on_late(tries) == tries < GuessLimit

\* The test of main.rs:368-369 letting a game go on at the limit itself.
game_goes_on_past_limit(tries) == tries <= GuessLimit

\* main.rs:368-369: next_guess < 7.
game_goes_on(tries) == tries + 1 < GuessLimit

\* main.rs:306-388: the branch "/guess" if input.len() == 2.
guess_attempt(state, input, ok) ==
    LET new_state == [state EXCEPT !.last_input = input]
        at        == input[2]
        tiles     == check_misplaced(chars(at), chars(state.answer))
        guesses   == Append(state.guesses, <<to_emoji(tiles), at>>)
        tries     == Len(guesses)
    IN  IF chars_count(at) # WordLen
        THEN await_ok(ok, new_state, "not 5 characters", "")
        ELSE IF ~is_dictionary_word(at)
        THEN await_ok(ok, new_state, "not in the dictionary", at)
        ELSE IF tiles = AllCorrect
        THEN await_ok(ok, StartState, "won", tries)
        ELSE IF game_goes_on(tries)
        THEN await_ok(ok, GuessState(state.answer, guesses, input), "progress", tries)
        ELSE await_ok(ok, StartState, "lost", state.answer)

\* main.rs:280-302: whether the message is an edit of the dictionaries.
is_edit(input) ==
    /\ input # <<>>
    /\ \/ input[1] \in AddCommands
       \/ input[1] = "/removeword" /\ Len(input) >= 2

\* main.rs:282-288 and 301: the batch handed to edit_dictionary.
edit_words(state, input) ==
    IF input[1] \in AddCommands /\ Len(input) = 1 /\ Len(state.last_input) = 2
    THEN <<state.last_input[2]>>
    ELSE Tail(input)

edit_action(input) == IF input[1] \in AddCommands THEN "Add" ELSE "Remove"

\* main.rs:269-398 without the calls of edit_dictionary.
guess_state(state, ans, ok) ==
    LET input     == split_whitespace(ans)
        new_state == [state EXCEPT !.last_input = input]
    IN  IF input = <<>> THEN panicked(state)            \* last_input[0] at main.rs:280
        ELSE IF input[1] \in ExitCommands
        THEN await_try(ok, StartState, "ending", state.answer)
        ELSE IF input[1] = "/removeword" /\ Len(input) < 2
        THEN await_try(ok, new_state, "usage", "")
        ELSE IF input[1] = "/guess" /\ Len(input) = 2
        THEN guess_attempt(state, input, ok)
        ELSE IF input[1] = "/guess"
        THEN not_awaited(state, "invalid guess")
        ELSE no_reply(state)

----------------------------------------------------------------------------
(* The messages of the model.                                                *)

Cmd(c)          == <<c>>
Cmd1(c, w)      == <<c, " ", w>>
Cmd2(c, w1, w2) == <<c, " ", w1, " ", w2>>

\* The messages of the whole system: few words, every kind of edit.
SystemTexts ==
    [c1 |-> {Cmd("/wordle"), Cmd("/stop"), Cmd1("/guess", "crane"),
             Cmd1("/addword", "cafE"), Cmd1("/removeword", "cafE"),
             Cmd1("/removeword", "crane")},
     c2 |-> {Cmd("/wordle"), Cmd1("/addword", "crane"), Cmd1("/removeword", "cafE")}]

\* The messages of a game: every branch of both handlers, for one conversation.
GameTexts ==
    [c1 |-> {Cmd("/wordle"), Cmd1("/wordle", "crane"), Cmd("hello"), <<" ">>,
             Cmd("/guess"), Cmd2("/guess", "crane", "nacre"),
             Cmd1("/guess", "crane"), Cmd1("/guess", "nacre"), Cmd1("/guess", "cafEs"),
             Cmd1("/guess", "ab"),
             Cmd("/exit"), Cmd("/end"), Cmd("/stop"),
             Cmd("/removeword"), Cmd1("/removeword", "nacre"),
             Cmd("/addword")},
     c2 |-> {}]

\* Updates the whole system takes from the message channel.
MaxUpdates == 4

NoLimit == 0 - 1

----------------------------------------------------------------------------
(* The state machine.                                                        *)

Idle == [pc |-> "idle"]

\* seq flips with every update handled; handler is the tag of the dialogue it found.
NoChannel == [seq |-> 0, conv |-> "none", handler |-> "none", text |-> <<>>,
              outcome |-> "none", reply |-> "none", sent |-> "none", payload |-> ""]

NoEval == <<>>

Started ==
    /\ assets \in InitAssets
    /\ GAME_WORDS = load_game_words(assets)
    /\ DICT_WORDS = load_dict_words(assets)
    /\ DIRTY_DICTIONARY = FALSE
    /\ APP_EXITING = FALSE
    /\ dialogue = [c \in Conv |-> StartState]
    /\ task = [c \in Conv |-> Idle]
    /\ channel = NoChannel
    /\ worker = "loop"
    /\ mainpc = "run"

\* main.rs:27-39: the process as the message loop starts.
Init ==
    /\ Started
    /\ quota = MaxUpdates
    /\ attempt = NoEval /\ answer = NoEval /\ placement = NoEval

\* The dialogue the next update of the conversation finds.  A next state is
\* stored (main.rs:152-156).  When the handler returns Err or panics, the closure
\* of main.rs:153-155 panics and returns nothing: the stored dialogue is as it was,
\* or is gone and the conversation is back at Dialogue::default() (main.rs:176-180).
stored_after(old, r) ==
    IF r.outcome = "next" THEN {r.dialogue} ELSE {old, StartState}

Complete(c, ans, r) ==
    /\ \E d \in stored_after(dialogue[c], r) : dialogue' = [dialogue EXCEPT ![c] = d]
    /\ channel' = [seq |-> 1 - channel.seq, conv |-> c, handler |-> dialogue[c].tag,
                   text |-> ans, outcome |-> r.outcome, reply |-> r.reply, sent |-> r.sent,
                   payload |-> r.payload]

Receiving(c) == mainpc = "run" /\ task[c].pc = "idle" /\ quota # 0

Taken == quota' = IF quota > 0 THEN quota - 1 ELSE quota

\* An update without text, where a text is never empty.
NoText == <<>>

\* main.rs:164-165: an update without text.
NonTextMessage(c) ==
    /\ Receiving(c)
    /\ Taken
    /\ Complete(c, NoText, no_reply(dialogue[c]))
    /\ UNCHANGED <<storeVars, task, worker, mainpc, evalVars>>

StartMessage(c, ans) ==
    /\ Receiving(c)
    /\ Taken
    /\ dialogue[c].tag = "Start"
    /\ \E ok \in BOOLEAN : \E r \in start_state(dialogue[c], ans, ok) :
         Complete(c, ans, r)
    /\ UNCHANGED <<storeVars, task, worker, mainpc, evalVars>>

GuessMessage(c, ans) ==
    /\ Receiving(c)
    /\ Taken
    /\ dialogue[c].tag = "Guess"
    /\ ~is_edit(split_whitespace(ans))
    /\ \E ok \in BOOLEAN :
         Complete(c, ans, guess_state(dialogue[c], ans, ok))
    /\ UNCHANGED <<storeVars, task, worker, mainpc, evalVars>>

\* main.rs:281-288, 297-302 and the first round of the loop of 194-208 / 215-225:
\* the batch is applied to GAME_WORDS under its write lock.
EditGame(c, ans) ==
    LET input  == split_whitespace(ans)
        action == edit_action(input)
        words  == edit_words(dialogue[c], input)
    IN  /\ Receiving(c)
        /\ Taken
        /\ dialogue[c].tag = "Guess"
        /\ is_edit(input)
        /\ task' = [task EXCEPT ![c] =
                [pc |-> "edit_dict", text |-> ans, action |-> action, words |-> words,
                 changed |-> batch_changed(action, words, GAME_WORDS),
                 new_state |-> [dialogue[c] EXCEPT !.last_input = input]]]
        /\ GAME_WORDS' = apply_batch(action, words, GAME_WORDS)
        /\ UNCHANGED <<DICT_WORDS, DIRTY_DICTIONARY, APP_EXITING, assets, dialogue, channel,
                       worker, mainpc, evalVars>>

\* Handlers in flight run on while main has not returned.
Running == mainpc \in {"run", "join"}

\* The second round of the loop: the batch is applied to DICT_WORDS under its lock.
EditDict(c) ==
    /\ Running
    /\ task[c].pc = "edit_dict"
    /\ task' = [task EXCEPT ![c].pc = "edit_dirty",
                            ![c].changed = @ \cup batch_changed(task[c].action, task[c].words,
                                                                DICT_WORDS)]
    /\ DICT_WORDS' = apply_batch(task[c].action, task[c].words, DICT_WORDS)
    /\ UNCHANGED <<GAME_WORDS, DIRTY_DICTIONARY, APP_EXITING, assets, dialogue, channel,
                   worker, mainpc, quota, evalVars>>

\* main.rs:209-210 / 226-227, then 290 / 304: the dirty flag, the reply, the next state.
EditFinish(c) ==
    /\ Running
    /\ task[c].pc = "edit_dirty"
    /\ DIRTY_DICTIONARY' = TRUE
    /\ \E ok \in BOOLEAN :
         Complete(c, task[c].text,
                  await_ok(ok, task[c].new_state,
                           IF task[c].action = "Add" THEN "Added" ELSE "Removed",
                           task[c].changed))
    /\ task' = [task EXCEPT ![c] = Idle]
    /\ UNCHANGED <<GAME_WORDS, DICT_WORDS, APP_EXITING, assets, worker, mainpc, quota, evalVars>>

----------------------------------------------------------------------------
(* dictionary_worker: main.rs:52-86.                                         *)

\* main.rs:56: the test of APP_EXITING at the top of the loop.
WorkerLoop ==
    /\ worker = "loop"
    /\ worker' = IF APP_EXITING THEN "exited" ELSE "swap"
    /\ UNCHANGED <<storeVars, convVars, mainpc, quota, evalVars>>

\* main.rs:57: dirty_dictionary.swap(false).
WorkerSwap ==
    /\ worker = "swap"
    /\ worker' = IF DIRTY_DICTIONARY THEN "write_game" ELSE "sleep"
    /\ DIRTY_DICTIONARY' = FALSE
    /\ UNCHANGED <<GAME_WORDS, DICT_WORDS, APP_EXITING, assets, convVars, mainpc, quota, evalVars>>

\* main.rs:68-79: what one round of the loop may leave of a file: File::create
\* fails and the file is as it was, or a write fails after some of the lines, or
\* every line is written.
write_outcomes(old, set) ==
    LET ws == iter(set)
    IN  {[done |-> FALSE, file |-> old]}
        \cup {[done |-> FALSE, file |-> [exists |-> TRUE, data |-> write_words(SubSeq(ws, 1, k))]]
                : k \in 0..(Len(ws) - 1)}
        \cup {[done |-> TRUE, file |-> FileOf(set)]}

\* main.rs:64-80, first round: words_custom.txt from GAME_WORDS under its read lock.
WorkerWriteGame ==
    /\ worker = "write_game"
    /\ \E o \in write_outcomes(assets.words_custom, GAME_WORDS) :
         /\ assets' = [assets EXCEPT !.words_custom = o.file]
         /\ worker' = IF o.done THEN "write_dict" ELSE "panicked"
    /\ UNCHANGED <<GAME_WORDS, DICT_WORDS, DIRTY_DICTIONARY, APP_EXITING, convVars, mainpc,
                   quota, evalVars>>

\* main.rs:64-80, second round: dictionary_custom.txt from DICT_WORDS.
WorkerWriteDict ==
    /\ worker = "write_dict"
    /\ \E o \in write_outcomes(assets.dictionary_custom, DICT_WORDS) :
         /\ assets' = [assets EXCEPT !.dictionary_custom = o.file]
         /\ worker' = IF o.done THEN "sleep" ELSE "panicked"
    /\ UNCHANGED <<GAME_WORDS, DICT_WORDS, DIRTY_DICTIONARY, APP_EXITING, convVars, mainpc,
                   quota, evalVars>>

\* main.rs:84
WorkerSleep ==
    /\ worker = "sleep"
    /\ worker' = "loop"
    /\ UNCHANGED <<storeVars, convVars, mainpc, quota, evalVars>>

WorkerStep == WorkerLoop \/ WorkerSwap \/ WorkerWriteGame \/ WorkerWriteDict \/ WorkerSleep

----------------------------------------------------------------------------
(* main: main.rs:41-45.                                                      *)

\* run() returns and main stores APP_EXITING.
MainExit ==
    /\ mainpc = "run"
    /\ APP_EXITING' = TRUE
    /\ mainpc' = "join"
    /\ UNCHANGED <<GAME_WORDS, DICT_WORDS, DIRTY_DICTIONARY, assets, convVars, worker, quota, evalVars>>

\* background_thread.join().expect(..): Ok once the worker has returned, Err (and a
\* panic of main) when the worker has panicked.
MainJoin ==
    /\ mainpc = "join"
    /\ worker \in {"exited", "panicked"}
    /\ mainpc' = IF worker = "exited" THEN "done" ELSE "panicked"
    /\ UNCHANGED <<storeVars, convVars, worker, quota, evalVars>>

Next ==
    \/ \E c \in Conv : NonTextMessage(c)
    \/ \E c \in Conv : \E ans \in SystemTexts[c] : StartMessage(c, ans)
    \/ \E c \in Conv : \E ans \in SystemTexts[c] : GuessMessage(c, ans)
    \/ \E c \in Conv : \E ans \in SystemTexts[c] : EditGame(c, ans)
    \/ \E c \in Conv : EditDict(c)
    \/ \E c \in Conv : EditFinish(c)
    \/ WorkerLoop
    \/ WorkerSwap
    \/ WorkerWriteGame
    \/ WorkerWriteDict
    \/ WorkerSleep
    \/ MainExit
    \/ MainJoin

\* The whole system with the messages of SystemTexts.
Spec == Init /\ [][Next]_vars

\* The worker thread is scheduled, and so are the handlers in flight.
FairSpec ==
    /\ Spec
    /\ WF_vars(WorkerStep)
    /\ \A c \in Conv : WF_vars(EditDict(c)) /\ WF_vars(EditFinish(c))

NextEdits ==
    \/ \E c \in Conv : NonTextMessage(c)
    \/ \E c \in Conv : \E ans \in SystemTexts[c] : StartMessage(c, ans)
    \/ \E c \in Conv : \E ans \in SystemTexts[c] : GuessMessage(c, ans)
    \/ \E c \in Conv : \E ans \in SystemTexts[c] : EditGame(c, ans)
    \/ \E c \in Conv : EditDict(c)
    \/ \E c \in Conv : EditFinish(c)

\* The handlers of both conversations on the word store, the worker at rest.
Edits == Init /\ [][NextEdits]_vars

InitGame ==
    /\ Started
    /\ quota = NoLimit
    /\ attempt = NoEval /\ answer = NoEval /\ placement = NoEval

NextGame ==
    \/ \E c \in Conv : NonTextMessage(c)
    \/ \E c \in Conv : \E ans \in GameTexts[c] : StartMessage(c, ans)
    \/ \E c \in Conv : \E ans \in GameTexts[c] : GuessMessage(c, ans)
    \/ \E c \in Conv : \E ans \in GameTexts[c] : EditGame(c, ans)
    \/ \E c \in Conv : EditDict(c)
    \/ \E c \in Conv : EditFinish(c)

\* The conversations alone, with the messages of GameTexts and no limit on them.
Game == InitGame /\ [][NextGame]_vars

----------------------------------------------------------------------------
(* The evaluation alone: every attempt and answer of five letters of         *)
(* Alphabet.                                                                 *)

Alphabet == {"a", "b", "c"}

InitEval ==
    /\ Started
    /\ assets = CHOOSE a \in InitAssets : ~a.words_custom.exists
    /\ quota = 0
    /\ attempt \in [1..WordLen -> Alphabet]
    /\ answer \in [1..WordLen -> Alphabet]
    /\ placement = NoEval

\* main.rs:310-343 on (attempt, answer).
Evaluate ==
    /\ placement = NoEval
    /\ placement' = check_misplaced(attempt, answer)
    /\ UNCHANGED <<storeVars, convVars, worker, mainpc, quota, attempt, answer>>

NextEval == Evaluate

Eval == InitEval /\ [][NextEval]_vars

----------------------------------------------------------------------------
(* Properties.                                                               *)

Positions == 1..WordLen

Evaluated == placement # NoEval

\* Positions of the attempt marked Incorrect (yellow) that hold letter c.
PresentOf(c) == {i \in Positions : placement[i] = Incorrect /\ attempt[i] = c}

\* Positions of the answer that hold letter c and are no exact match.
RemainingOf(c) == {i \in Positions : answer[i] = c /\ attempt[i] # answer[i]}

\* C1: for every letter, the evaluation marks at most as many positions Present
\* with that letter as the answer holds of it outside the exact matches.
C1_PresentWithinRemaining ==
    Evaluated => \A c \in Alphabet : Cardinality(PresentOf(c)) <= Cardinality(RemainingOf(c))

----------------------------------------------------------------------------
(* Steps of the dialogue: in a step handled for c, the unprimed variables    *)
(* are the state the handler found and channel' is what it did.              *)

HandledFor(c) == channel'.seq # channel.seq /\ channel'.conv = c

InGuess(c) == dialogue[c].tag = "Guess"

OneGuess(input) == Len(input) = 2 /\ input[1] = "/guess"

Acceptable(w) == chars_count(w) = WordLen /\ w \in DICT_WORDS

AcceptedGuess(input) == OneGuess(input) /\ Acceptable(input[2])

RejectedGuess(input) == OneGuess(input) /\ ~Acceptable(input[2])

\* C2: an accepted guess that differs from the answer keeps the game going with
\* one more entry of history while fewer than five are stored, and as the sixth
\* it replies "lost" with the answer and ends the game; a game starts with an
\* empty history.
C2_step(c) ==
    LET input == split_whitespace(channel'.text)
    IN  /\ (InGuess(c) /\ AcceptedGuess(input) /\ input[2] # dialogue[c].answer) =>
              IF Len(dialogue[c].guesses) + 1 < 6
              THEN /\ dialogue'[c].tag = "Guess"
                   /\ dialogue'[c].answer = dialogue[c].answer
                   /\ Len(dialogue'[c].guesses) = Len(dialogue[c].guesses) + 1
                   /\ channel'.reply = "progress"
              ELSE /\ Len(dialogue[c].guesses) + 1 = 6
                   /\ dialogue'[c] = StartState
                   /\ channel'.reply = "lost"
                   /\ channel'.payload = dialogue[c].answer
        /\ (~InGuess(c) /\ dialogue'[c].tag = "Guess") => dialogue'[c].guesses = <<>>

C2_SixthFailedGuessLoses == [][\A c \in Conv : HandledFor(c) => C2_step(c)]_vars

\* C2 witness: a game was lost, after five stored failed guesses.
C2_Witness ==
    /\ channel.reply = "lost"
    /\ channel.conv \in Conv
    /\ dialogue[channel.conv] = StartState

\* C4: a /guess with one argument that has not 5 characters or is not in the
\* dictionary leaves the conversation in Guessing with the same answer and history.
C4_step(c) ==
    (InGuess(c) /\ RejectedGuess(split_whitespace(channel'.text))) =>
        /\ dialogue'[c].tag = "Guess"
        /\ dialogue'[c].answer = dialogue[c].answer
        /\ dialogue'[c].guesses = dialogue[c].guesses

C4_RejectedGuessKeepsState == [][\A c \in Conv : HandledFor(c) => C4_step(c)]_vars

\* C4 witness: a 5-character guess was rejected as not in the dictionary in a game
\* that has history.
C4_Witness ==
    /\ channel.reply = "not in the dictionary"
    /\ chars_count(channel.payload) = WordLen
    /\ dialogue[channel.conv].tag = "Guess"
    /\ dialogue[channel.conv].guesses # <<>>

\* The tiles of a guess of w in the game of conversation c.
TilesOf(c, w) == check_misplaced(chars(w), chars(dialogue[c].answer))

Wins(c, input) == AcceptedGuess(input) /\ TilesOf(c, input[2]) = AllCorrect

Loses(c, input) ==
    AcceptedGuess(input) /\ TilesOf(c, input[2]) # AllCorrect /\ Len(dialogue[c].guesses) = 5

Exits(input) == input # <<>> /\ input[1] \in ExitCommands

\* C3: a message handled in Guessing moves the conversation to Start exactly when
\* it is a winning accepted guess, the accepted failed guess that exhausts the six
\* tries, or one of /exit, /end, /stop.
C3_step(c) ==
    LET input == split_whitespace(channel'.text)
    IN  InGuess(c) =>
            (dialogue'[c].tag = "Start" <=> (Wins(c, input) \/ Loses(c, input) \/ Exits(input)))

C3_StartExactlyOnWinLossExit == [][\A c \in Conv : HandledFor(c) => C3_step(c)]_vars

\* C3 for the handlers that return a next state.
C3_WhenHandlerReturns ==
    [][\A c \in Conv : (HandledFor(c) /\ channel'.outcome = "next") => C3_step(c)]_vars

WrongArity(input) == input # <<>> /\ input[1] = "/guess" /\ Len(input) # 2

\* C5: in Guessing, /guess with no or with several arguments has the reply
\* "invalid guess" sent and leaves the conversation's state unchanged.
C5_step(c) ==
    (InGuess(c) /\ WrongArity(split_whitespace(channel'.text))) =>
        /\ channel'.reply = "invalid guess"
        /\ channel'.sent \in {"ok", "failed"}
        /\ dialogue'[c] = dialogue[c]

C5_InvalidGuessReplied == [][\A c \in Conv : HandledFor(c) => C5_step(c)]_vars

\* The states the handler would return for the update were its reply delivered.
DeliveredStates(c) ==
    IF task[c].pc # "idle" THEN {task[c].new_state}
    ELSE IF channel'.text = NoText THEN {dialogue[c]}
    ELSE IF InGuess(c) THEN {guess_state(dialogue[c], channel'.text, TRUE).dialogue}
    ELSE {r.dialogue : r \in start_state(dialogue[c], channel'.text, TRUE)}

\* C10: a reply that is not delivered changes nothing of the transition: the
\* handler returns no error and the next state is the one of a delivered reply.
C10_step(c) ==
    channel'.sent = "failed" =>
        /\ channel'.outcome = "next"
        /\ dialogue'[c] \in DeliveredStates(c)

C10_TransportNeverDecides == [][\A c \in Conv : HandledFor(c) => C10_step(c)]_vars

----------------------------------------------------------------------------
(* The word store and its worker.                                            *)

\* main.rs:195-208: the write guards a handler holds between two rounds of the
\* loop; the guard of a round is dropped at the round's end.
guards_held(c) == {}

\* The batch of c has changed GAME_WORDS and would still change DICT_WORDS.
PartlyApplied(c) ==
    /\ task[c].pc = "edit_dict"
    /\ task[c].changed # {}
    /\ apply_batch(task[c].action, task[c].words, DICT_WORDS) # DICT_WORDS

\* C6: while the batch of an edit is applied to the playable set and not yet to
\* the dictionary set, the word store is closed to every other thread.
C6_EditAtomic ==
    \A c \in Conv : PartlyApplied(c) => {"GAME_WORDS", "DICT_WORDS"} \subseteq guards_held(c)

FlushCycleDone == worker = "sleep" /\ ~DIRTY_DICTIONARY

\* C7: once the dirty flag is set then, unless the process shuts down, the worker
\* completes a flush cycle.
C7_FlushNeverSkipped == DIRTY_DICTIONARY ~> (APP_EXITING \/ FlushCycleDone)

Quiet ==
    /\ ~DIRTY_DICTIONARY
    /\ \A c \in Conv : task[c].pc = "idle"
    /\ worker \notin {"write_game", "write_dict"}

\* C8: with the dirty flag false and neither an edit nor a flush in progress, a
\* reload of the word lists gives the sets in memory.
C8_RoundTrip ==
    Quiet => /\ load_game_words(assets) = GAME_WORDS
             /\ load_dict_words(assets) = DICT_WORDS

\* C8 while the worker has not panicked (the case of C9).
C8_WhileWorkerAlive == (Quiet /\ worker # "panicked") => C8_RoundTrip

\* C9: a failure to write a flush destination does not end the worker.
C9_WriteFailureSurvived == worker # "panicked"

----------------------------------------------------------------------------
(* The edit protocol seen from its callers.                                  *)

NoEditInFlight == \A c \in Conv : task[c].pc = "idle"

\* The words a completed /addword or /removeword with arguments named.
EditedWords == Range(Tail(split_whitespace(channel.text)))

\* C11: when the last update handled is a completed Add of a word of 5 characters
\* and no edit is in flight, the word is in the dictionary set and in the playable
\* set; when it is a completed Remove, the word is in neither.
C11_EditThenLookup ==
    (NoEditInFlight /\ channel.reply \in {"Added", "Removed"}) =>
        \A w \in EditedWords : chars_count(w) = WordLen =>
            IF channel.reply = "Added"
            THEN is_dictionary_word(w) /\ w \in GAME_WORDS
            ELSE ~is_dictionary_word(w) /\ w \notin GAME_WORDS

\* The words one round of the loop of an edit has put into, or taken from, a set.
Delta(action, before, after) == IF action = "Add" THEN after \ before ELSE before \ after

\* Applying the Add again to the set it has just been applied to changes nothing
\* and reports nothing.
AddAgain(t, set) ==
    t.action = "Add" =>
        /\ apply_batch("Add", t.words, set) = set
        /\ batch_changed("Add", t.words, set) = {}

\* C12: the set an edit reports is exactly the words of its batch it has newly
\* inserted (Add) or found present and removed (Remove), over both sets; an Add
\* applied again right after itself leaves the set unchanged and reports nothing.
C12_step(c) ==
    LET t == task'[c]
    IN  /\ (task[c].pc = "idle" /\ t.pc = "edit_dict") =>
              /\ t.changed = Delta(t.action, GAME_WORDS, GAME_WORDS')
              /\ t.changed \subseteq Range(t.words)
              /\ AddAgain(t, GAME_WORDS')
        /\ (task[c].pc = "edit_dict" /\ t.pc = "edit_dirty") =>
              /\ t.changed = task[c].changed \cup Delta(t.action, DICT_WORDS, DICT_WORDS')
              /\ t.changed \subseteq Range(t.words)
              /\ AddAgain(t, DICT_WORDS')
        /\ (task[c].pc = "edit_dirty" /\ t.pc = "idle") =>
              channel'.payload = task[c].changed

C12_ReportIsWhatChanged == [][\A c \in Conv : C12_step(c)]_vars

\* C12 witness: an Add of a word that no word list of a start holds has reported
\* nothing, the word being in both sets from an Add before it.
C12_Witness ==
    /\ channel.reply = "Added"
    /\ channel.text = Cmd1("/addword", "cafE")
    /\ channel.payload = {}
    /\ {"cafE"} \subseteq GAME_WORDS \cap DICT_WORDS

\* The length test of a guess (main.rs:313) applied to the words of a batch.
FiveCharacters(words) == {w \in Range(words) : chars_count(w) = WordLen}

\* C13: an Add inserts into the playable set exactly the words of its batch that
\* have 5 characters, as the length test of a guess counts them, and were not in
\* the set; every other candidate is rejected.
C13_step(c) ==
    LET t == task'[c]
    IN  (task[c].pc = "idle" /\ t.pc = "edit_dict" /\ t.action = "Add") =>
            GAME_WORDS' \ GAME_WORDS = FiveCharacters(t.words) \ GAME_WORDS

C13_AddTakesFiveCharacters == [][\A c \in Conv : C13_step(c)]_vars

----------------------------------------------------------------------------
(* The start of a game.                                                      *)

\* C14: a /wordle handled in Start whose start message is delivered obtains an
\* answer of the playable set and begins the game; get_random_word does not fail.
C14_step(c) ==
    (~InGuess(c) /\ channel'.text = Cmd("/wordle") /\ channel'.sent = "ok") =>
        /\ channel'.outcome = "next"
        /\ dialogue'[c].tag = "Guess"
        /\ dialogue'[c].answer \in GAME_WORDS

C14_RandomWordNeverFails == [][\A c \in Conv : HandledFor(c) => C14_step(c)]_vars

FirstToken(text) == IF split_whitespace(text) = <<>> THEN "" ELSE split_whitespace(text)[1]

\* C15: in Start, a text whose first token is /wordle, whatever follows it, moves
\* the conversation to Guessing with an empty history and an answer of the playable
\* set; every other text leaves it in Start.
C15_step(c) ==
    (~InGuess(c) /\ channel'.text # NoText /\ channel'.outcome = "next") =>
        IF FirstToken(channel'.text) = "/wordle"
        THEN /\ dialogue'[c].tag = "Guess"
             /\ dialogue'[c].guesses = <<>>
             /\ dialogue'[c].answer \in GAME_WORDS
        ELSE dialogue'[c] = StartState

C15_WordleIsFirstToken == [][\A c \in Conv : HandledFor(c) => C15_step(c)]_vars

\* C16: a conversation in Guessing stores a history of at most 6 entries.
C16_HistoryAtMostSix == \A c \in Conv : InGuess(c) => Len(dialogue[c].guesses) <= 6

\* C16 witness: a game that goes on after its fifth failed guess was stored.
C16_Witness ==
    \E c \in Conv :
        /\ InGuess(c)
        /\ Len(dialogue[c].guesses) = 5
        /\ channel.conv = c
        /\ channel.reply = "progress"

----------------------------------------------------------------------------
(* The evaluation: exact matches.                                            *)

\* Positions where the attempt and the answer hold the same character.
Matches == {i \in Positions : attempt[i] = answer[i]}

CorrectTiles == {i \in Positions : placement[i] = Correct}

\* C17: the evaluation gives as many Correct tiles as there are positions where
\* attempt and answer agree, and five Correct tiles exactly when they are equal.
C17_CorrectTilesAreMatches ==
    Evaluated =>
        /\ Cardinality(CorrectTiles) = Cardinality(Matches)
        /\ (placement = AllCorrect <=> attempt = answer)

\* C17 witness: an evaluation with some exact matches, a misplaced character and
\* a missing one.
C17_Witness ==
    /\ Evaluated
    /\ Cardinality(Matches) = 2
    /\ \E i, j \in Positions : placement[i] = Incorrect /\ placement[j] = Missing

----------------------------------------------------------------------------
(* Shutdown.                                                                 *)

MainFinished == mainpc \in {"done", "panicked"}

Flushing == worker \in {"write_game", "write_dict"}

\* The worker leaves the top of its loop with the exit flag set.
ObservesExit == worker = "loop" /\ APP_EXITING /\ worker' # worker

\* C18: once main has set the exit flag the worker observes it at the top of its
\* loop and returns; main finishes only after the worker has returned, so never
\* during a flush; and the worker that has observed the flag starts no flush.
C18_ShutdownJoinsWorker ==
    /\ [](MainFinished => worker = "exited")
    /\ [](MainFinished => ~Flushing)
    /\ (APP_EXITING ~> worker = "exited")
    /\ [][ObservesExit => worker' = "exited"]_vars
    /\ [][worker = "exited" => worker' = "exited"]_vars

\* C18 where the worker that has panicked on a write (the case of C9) counts as
\* a worker that has ended.
C18_WorkerEnded ==
    /\ [](MainFinished => worker \in {"exited", "panicked"})
    /\ [](MainFinished => ~Flushing)
    /\ (APP_EXITING ~> worker \in {"exited", "panicked"})
    /\ [][ObservesExit => worker' = "exited"]_vars
    /\ [][worker = "exited" => worker' = "exited"]_vars

----------------------------------------------------------------------------
(* Texts that are no command.                                                *)

\* The first tokens the match of guess_state has an arm for (main.rs:281-389).
GuessCommands == AddCommands \cup ExitCommands \cup {"/removeword", "/guess"}

\* C19: in Guessing, a text whose first token is no command of guess_state, or
\* that holds no token at all, is handled without failure and without a reply and
\* leaves the conversation's state as it was.
C19_step(c) ==
    (InGuess(c) /\ FirstToken(channel'.text) \notin GuessCommands) =>
        /\ channel'.outcome = "next"
        /\ channel'.sent = "none"
        /\ dialogue'[c] = dialogue[c]

C19_UnrecognizedIgnored == [][\A c \in Conv : HandledFor(c) => C19_step(c)]_vars

\* C19 for the texts that hold a token.
C19_WithAToken ==
    [][\A c \in Conv :
          (HandledFor(c) /\ (channel'.text = NoText \/ split_whitespace(channel'.text) # <<>>))
              => C19_step(c)]_vars

----------------------------------------------------------------------------
(* The answer of a game.                                                     *)

\* C20: with no edit in flight, the answer of every conversation in Guessing has
\* 5 characters and is in the dictionary set, so a guess of it is evaluated.
C20_AnswerIsAcceptable ==
    NoEditInFlight => \A c \in Conv : InGuess(c) => Acceptable(dialogue[c].answer)

====
